---- MODULE Spec2Model ----
(***************************************************************************)
(* Model of news_sentiment: the pandas-backed DataStorage table            *)
(* (src/datastorage.py) and the FMP synchronisation run (src/fmp.py):      *)
(* paginated fetch, normalisation, merge, date sort, save.                 *)
(*                                                                         *)
(* Encoding of scalars.  Cell values are integers, Null stands for         *)
(* NaN/None.  Row labels (the DataFrame index) are integers too:           *)
(*   0..9       the integer labels a RangeIndex assigns,                   *)
(*   10*d       the date string of day d as strftime writes it,            *)
(*   10*d + 1   another spelling of day d that strptime accepts under the  *)
(*              same format (no zero padding: "2021-1-5"),                 *)
(*   10*d + 2   a string the format does not match (to_datetime raises).   *)
(* Column names are strings.                                               *)
(***************************************************************************)
EXTENDS Integers, Sequences, FiniteSets, TLC

VARIABLES
    df,             \* DataStorage.df: the in-memory table of the store
    columns,        \* DataStorage.columns: declared column list, or NoColumns
    file,           \* the csv file at DataStorage.file_path
    pc,             \* position of the running synchronisation (FMP.read_*)
    endpoint,       \* "news" | "social": which read_* method / store is modelled
    cross_check,    \* _read_entries: the cross_check argument
    curr_page,      \* _read_entries: curr_page
    response_list,  \* _read_entries: response_list
    pages,          \* the responses the remote source gave, in request order
    entries,        \* the dataframe _read_entries returned (after the column drop)
    now,            \* time.time(), in ticks since the run began
    loop_start_time,\* _read_entries: loop_start_time of the current iteration
    starts,         \* loop_start_time of every iteration of the run
    slept,          \* the delay passed to time.sleep after each iteration (0: none)
    steps,          \* the pipeline steps completed in the run, in order
    df0,            \* df when the run began
    file0,          \* file when the run began
    error,          \* the exception that ended the run, or "none"
    lastOp,         \* the last DataStorage call: name, arguments, outcome
    pre,            \* df before the last DataStorage call
    nops            \* number of DataStorage calls made

storeVars == <<df, columns, file>>
runVars == <<pc, endpoint, cross_check, curr_page, response_list, pages, entries,
             now, loop_start_time, starts, slept, steps, df0, file0, error>>
callVars == <<lastOp, pre, nops>>
vars == <<df, columns, file, pc, endpoint, cross_check, curr_page, response_list,
          pages, entries, now, loop_start_time, starts, slept, steps, df0, file0,
          error, lastOp, pre, nops>>

(***************************************************************************)
(* Bounds of the model.                                                    *)
(***************************************************************************)
MaxOps == 2          \* DataStorage calls in one behaviour of StoreSpec
MaxPages == 3        \* the remote source holds fewer than MaxPages non-empty pages
MaxLatency == 3      \* longest time one loop iteration takes, in ticks
TicksPerSecond == 10 \* resolution of the modelled clock

(***************************************************************************)
(* Scalars.                                                                *)
(***************************************************************************)
Null == 0
Values == {Null, 1, 2}

Range(s) == {s[i] : i \in 1..Len(s)}
IsUnique(s) == \A i, j \in 1..Len(s) : s[i] = s[j] => i = j
SeqSum(s) == LET RECURSIVE Sum(_)
                 Sum(n) == IF n = 0 THEN 0 ELSE s[n] + Sum(n - 1)
             IN Sum(Len(s))
\* the positions of s, in order, whose element satisfies Keep
RECURSIVE SelectIdx(_, _)
SelectIdx(n, keep) ==
    IF n = 0 THEN <<>>
    ELSE IF n \in keep THEN Append(SelectIdx(n - 1, keep), n)
    ELSE SelectIdx(n - 1, keep)
Pick(s, keep) == LET idx == SelectIdx(Len(s), keep)
                 IN [i \in 1..Len(idx) |-> s[idx[i]]]

\* the integer column names 0, 1, .. pandas gives a frame built without columns
ColLabel(i) == <<"0", "1", "2", "3">>[i + 1]
IsIntLabel(c) == c \in {"0", "1", "2", "3"}
\* the string that names column i in a csv header, as read_csv reads it back
StrLabel(c) == CASE c = "0" -> "'0'" [] c = "1" -> "'1'" [] c = "2" -> "'2'"
                 [] c = "3" -> "'3'" [] OTHER -> c

\* Python's sorted() on the column names of the model: integers by value,
\* strings by code point (integers and strings do not compare: TypeError)
ColumnOrder == <<"0", "1", "2", "3", "'0'", "'1'", "'2'", "'3'",
                 "Unnamed: 0", "a", "b", "c", "date", "image", "published_date",
                 "sentiment", "sentiment_probability", "stocktwits_sentiment",
                 "symbol", "text", "title">>
ColRank(c) == CHOOSE i \in 1..Len(ColumnOrder) : ColumnOrder[i] = c

(***************************************************************************)
(* Date strings: pd.to_datetime(index, format) and index.strftime(format). *)
(***************************************************************************)
\* The format is that of the caller; the strings the remote source sends are
\* taken to match it (fmp.py, the note above set_index).
IsDateString(k) == k >= 10 /\ k % 10 \in {0, 1}
to_datetime(k) == k \div 10
strftime(d) == 10 * d

(***************************************************************************)
(* DataFrame: index (row labels), index_name, columns, data (one function  *)
(* from column name to cell per row).                                      *)
(***************************************************************************)
NoColumns == <<"<None>">>
NoName == ""

DataFrame(cols) == [index |-> <<>>, index_name |-> NoName, columns |-> cols, data |-> <<>>]
NRows(t) == Len(t.index)
ColSet(t) == Range(t.columns)
KeySet(t) == Range(t.index)
RowsOf(t, k) == {i \in 1..NRows(t) : t.index[i] = k}
TakeRows(t, keep) == [t EXCEPT !.index = Pick(t.index, keep), !.data = Pick(t.data, keep)]

\* DataStorage.__init__
NewStoreDf(declared) == DataFrame(IF declared = NoColumns THEN <<>> ELSE declared)

(***************************************************************************)
(* DataStorage operations.  Each operator gives the call's outcome:        *)
(* df (the table afterwards), raised (the exception, or "none") and, for   *)
(* calls that return something, result.                                    *)
(***************************************************************************)
Ok(t) == [df |-> t, raised |-> "none"]
Raise(t, exc) == [df |-> t, raised |-> exc]

\* DataStorage.add_column: self.df[column_name] = default_value
add_column(t, column_name, default_value) ==
    Ok([t EXCEPT
          !.columns = IF column_name \in ColSet(t) THEN @ ELSE Append(@, column_name),
          !.data = [i \in 1..NRows(t) |->
                      [c \in ColSet(t) \cup {column_name} |->
                          IF c = column_name THEN default_value ELSE t.data[i][c]]]])

\* pd.DataFrame(rows, columns = columns): the cells of the new rows, by column name
NewRowData(cols, rows) ==
    [i \in 1..Len(rows) |-> [c \in Range(cols) |->
        rows[i][CHOOSE j \in 1..Len(cols) : cols[j] = c]]]

\* DataFrame.append(df_new): rows of both frames, columns of both (old ones first),
\* NaN where a frame lacks a column
AppendFrames(t, newIndex, newCols, newData, indexAfter) ==
    LET extra == Pick(newCols, {j \in 1..Len(newCols) : newCols[j] \notin ColSet(t)})
        cols == t.columns \o extra
        n == NRows(t)
    IN [index |-> indexAfter,
        index_name |-> NoName,
        columns |-> cols,
        data |-> [i \in 1..(n + Len(newData)) |-> [c \in Range(cols) |->
                    IF i <= n
                    THEN (IF c \in ColSet(t) THEN t.data[i][c] ELSE Null)
                    ELSE (IF c \in Range(newCols) THEN newData[i - n][c] ELSE Null)]]]

NoIndices == <<-1>>

\* mutant: append without ignore_index, the new rows keep the labels 0..m-1
add_rows_keep_index(t, rows, indices) ==
    LET width == Len(rows[1])
        cols == IF Len(t.columns) = 0
                THEN [j \in 1..width |-> ColLabel(j - 1)]
                ELSE t.columns
    IN IF Len(cols) # width
       THEN Raise(t, "ValueError")
       ELSE Ok(AppendFrames(t, <<>>, cols, NewRowData(cols, rows),
                            t.index \o (IF indices = NoIndices
                                        THEN [i \in 1..Len(rows) |-> i - 1]
                                        ELSE indices)))

\* mutant: the new rows are put before the rows of the table
add_rows_first(t, rows, indices) ==
    LET width == Len(rows[1])
        cols == IF Len(t.columns) = 0
                THEN [j \in 1..width |-> ColLabel(j - 1)]
                ELSE t.columns
        n == NRows(t)
        m == Len(rows)
        new == [index |-> IF indices = NoIndices
                          THEN [i \in 1..m |-> i - 1] ELSE indices,
                index_name |-> NoName,
                columns |-> cols,
                data |-> NewRowData(cols, rows)]
    IN IF Len(cols) # width
       THEN Raise(t, "ValueError")
       ELSE Ok(AppendFrames(new, t.index, t.columns, t.data,
                            IF indices = NoIndices
                            THEN [i \in 1..(n + m) |-> i - 1]
                            ELSE indices \o t.index))

\* DataStorage.add_rows
add_rows(t, rows, indices) ==
    LET width == Len(rows[1])
        cols == IF Len(t.columns) = 0
                THEN [j \in 1..width |-> ColLabel(j - 1)]
                ELSE t.columns
        n == NRows(t)
        m == Len(rows)
    IN IF Len(cols) # width
       THEN Raise(t, "ValueError")
       ELSE IF indices = NoIndices
       THEN Ok(AppendFrames(t, <<>>, cols, NewRowData(cols, rows),
                            [i \in 1..(n + m) |-> i - 1]))
       ELSE Ok(AppendFrames(t, indices, cols, NewRowData(cols, rows),
                            t.index \o indices))

Conditions == {"gt", "lt", "eq", "neq"}

\* mutant: eq and neq compare by value whatever the value is (NaN equals nothing)
CellMatchesByValue(cell, condition, value) ==
    CASE condition = "gt"  -> cell # Null /\ value # Null /\ cell > value
      [] condition = "lt"  -> cell # Null /\ value # Null /\ cell < value
      [] condition = "eq"  -> cell # Null /\ value # Null /\ cell = value
      [] condition = "neq" -> ~(cell # Null /\ value # Null /\ cell = value)
      [] OTHER -> FALSE

\* one cell of the boolean filter the three *_by_condition methods build
CellMatches(cell, condition, value) ==
    CASE condition = "gt"  -> cell # Null /\ value # Null /\ cell > value
      [] condition = "lt"  -> cell # Null /\ value # Null /\ cell < value
      [] condition = "eq"  -> IF value # Null THEN cell # Null /\ cell = value
                              ELSE cell = Null
      [] condition = "neq" -> IF value # Null THEN cell # value
                              ELSE cell # Null
      [] OTHER -> FALSE

bool_filter(t, column, condition, value) ==
    {i \in 1..NRows(t) : CellMatches(t.data[i][column], condition, value)}

\* DataStorage.update_rows
update_rows(t, condition_column, condition, condition_value, columns_to_update, update_value) ==
    \* no branch binds bool_filter: line 189 reads an unbound local
    IF condition \notin Conditions THEN Raise(t, "UnboundLocalError")
    ELSE IF condition_column \notin ColSet(t) THEN Raise(t, "KeyError")
    ELSE LET hit == bool_filter(t, condition_column, condition, condition_value)
         IN Ok([t EXCEPT !.data = [i \in 1..NRows(t) |-> [c \in ColSet(t) |->
                    IF i \in hit /\ c \in columns_to_update THEN update_value
                    ELSE t.data[i][c]]]])

NoResult == DataFrame(<<"<None>">>)

\* DataStorage.get_rows_by_condition
get_rows_by_condition(t, column, condition, value) ==
    IF condition \notin Conditions THEN [df |-> t, raised |-> "none", result |-> NoResult]
    ELSE IF column \notin ColSet(t) THEN [df |-> t, raised |-> "KeyError", result |-> NoResult]
    ELSE [df |-> t, raised |-> "none",
          result |-> TakeRows(t, bool_filter(t, column, condition, value))]

\* DataStorage.remove_rows_by_condition: drop() removes by label
remove_rows_by_condition(t, column, condition, value) ==
    IF condition \notin Conditions THEN Ok(t)
    ELSE IF column \notin ColSet(t) THEN Raise(t, "KeyError")
    ELSE LET hit == bool_filter(t, column, condition, value)
             labels == {t.index[i] : i \in hit}
         IN Ok(TakeRows(t, {i \in 1..NRows(t) : t.index[i] \notin labels}))

\* mutant: the rows are left in the order they are in
KeepOrder(dates) == [r \in 1..Len(dates) |-> r]

\* the order sort_index(ascending = False) gives: position r holds the row with r - 1
\* rows before it (a later date, or the same date and an earlier position)
SortDescending(dates) ==
    LET n == Len(dates)
        before(i) == Cardinality({j \in 1..n : dates[j] > dates[i]
                                               \/ (dates[j] = dates[i] /\ j < i)})
    IN [r \in 1..n |-> CHOOSE i \in 1..n : before(i) = r - 1]

\* sorted(ds.df.columns)
SortedColumns(cols) ==
    LET n == Len(cols)
        before(i) == Cardinality({j \in 1..n : ColRank(cols[j]) < ColRank(cols[i])
                                               \/ (cols[j] = cols[i] /\ j < i)})
    IN [r \in 1..n |-> cols[CHOOSE i \in 1..n : before(i) = r - 1]]

\* DataStorage.sort_ds_dates
sort_ds_dates(t) ==
    IF \E i \in 1..NRows(t) : ~IsDateString(t.index[i]) THEN Raise(t, "ValueError")
    ELSE LET dates == [i \in 1..NRows(t) |-> to_datetime(t.index[i])]
             order == SortDescending(dates)
             rows_sorted == [t EXCEPT
                                !.index = [r \in 1..NRows(t) |-> strftime(dates[order[r]])],
                                !.data = [r \in 1..NRows(t) |-> t.data[order[r]]]]
         IN IF \E c, d \in ColSet(t) : IsIntLabel(c) /\ ~IsIntLabel(d)
            THEN Raise(rows_sorted, "TypeError")   \* sorted() of mixed names, line 272
            ELSE Ok([rows_sorted EXCEPT !.columns = SortedColumns(t.columns)])

(***************************************************************************)
(* DataStorage.intersect_on_column.  Of the frames pd.merge_ordered builds *)
(* only the column merged on is read: the model keeps that column.         *)
(***************************************************************************)
ColumnValues(t, c) == [i \in 1..NRows(t) |-> t.data[i][c]]
Count(s, v) == Cardinality({i \in 1..Len(s) : s[i] = v})
Repeat(v, n) == [i \in 1..n |-> v]

\* the order of the merged keys: ascending, NaN last
KeyOrder == <<1, 2, Null>>

\* mutant: how = "outer", a key of either frame is kept
merge_ordered_outer(left, right) ==
    LET rows(v) == IF Count(left, v) > 0 /\ Count(right, v) > 0
                   THEN Count(left, v) * Count(right, v)
                   ELSE Count(left, v) + Count(right, v)
    IN Repeat(KeyOrder[1], rows(KeyOrder[1])) \o Repeat(KeyOrder[2], rows(KeyOrder[2]))
       \o Repeat(KeyOrder[3], rows(KeyOrder[3]))

\* pd.merge_ordered(left, right, how = "inner", on = column_name), the key
\* column: one row for every pair of rows with the same key (NaN pairs with NaN)
merge_ordered(left, right) ==
    LET rows(v) == Count(left, v) * Count(right, v)
    IN Repeat(KeyOrder[1], rows(KeyOrder[1])) \o Repeat(KeyOrder[2], rows(KeyOrder[2]))
       \o Repeat(KeyOrder[3], rows(KeyOrder[3]))

\* intersection_df[column_name] after the loop over dataframes[2:]
RECURSIVE intersection_df(_, _, _)
intersection_df(dataframes, column_name, n) ==
    IF n = 2
    THEN merge_ordered(ColumnValues(dataframes[1], column_name),
                       ColumnValues(dataframes[2], column_name))
    ELSE merge_ordered(intersection_df(dataframes, column_name, n - 1),
                       ColumnValues(dataframes[n], column_name))

\* DataStorage.intersect_on_column: result is the list of filtered frames
intersect_on_column(dataframes, column_name) ==
    IF Len(dataframes) < 2 THEN [raised |-> "IndexError", result |-> <<>>]
    ELSE IF \E i \in 1..Len(dataframes) : column_name \notin ColSet(dataframes[i])
    THEN [raised |-> "KeyError", result |-> <<>>]
    ELSE LET common == Range(intersection_df(dataframes, column_name, Len(dataframes)))
         IN [raised |-> "none",
             result |-> [i \in 1..Len(dataframes) |->
                            TakeRows(dataframes[i],
                                     {r \in 1..NRows(dataframes[i]) :
                                         dataframes[i].data[r][column_name] \in common})]]

(***************************************************************************)
(* The csv file: whether it exists, its header line (if it has one) and    *)
(* its data lines.  An empty field reads back as NaN, so Null is the empty *)
(* field.                                                                  *)
(***************************************************************************)
NoFile == [exists |-> FALSE, has_header |-> FALSE, header |-> <<>>, rows |-> <<>>]

\* DataFrame.to_csv(file_path, index = save_index, header = ...)
to_csv(t, save_index, with_header) ==
    [exists |-> TRUE,
     has_header |-> with_header,
     header |-> IF with_header
                THEN (IF save_index THEN <<t.index_name>> ELSE <<>>) \o t.columns
                ELSE <<>>,
     rows |-> [i \in 1..NRows(t) |->
                 (IF save_index THEN <<t.index[i]>> ELSE <<>>)
                 \o [j \in 1..Len(t.columns) |-> t.data[i][t.columns[j]]]]]

\* DataStorage.save_data: the header is written only when no columns are declared
save_data(t, declared, save_index) == to_csv(t, save_index, declared = NoColumns)

NoIndexCol == "<False>"     \* index_col = False, the default of read_data
FirstColumn == "<0>"        \* index_col = 0

\* the frame read_csv builds from data lines under the given column names;
\* index_col is NoIndexCol or the name of the index column (an index column
\* pandas named "Unnamed: 0" gives an index without a name)
FrameOf(names, lines, index_col) ==
    LET at(c) == CHOOSE j \in 1..Len(names) : names[j] = c
        cols == IF index_col = NoIndexCol THEN names
                ELSE Pick(names, {j \in 1..Len(names) : names[j] # index_col})
    IN [index |-> [i \in 1..Len(lines) |->
                     IF index_col = NoIndexCol THEN i - 1 ELSE lines[i][at(index_col)]],
        index_name |-> IF index_col \in {NoIndexCol, "Unnamed: 0"} THEN NoName ELSE index_col,
        columns |-> cols,
        data |-> [i \in 1..Len(lines) |-> [c \in Range(cols) |-> lines[i][at(c)]]]]

\* the names read_csv takes from the header line: strings, and
\* "Unnamed: <position>" for an empty field
HeaderNames(header) ==
    [j \in 1..Len(header) |-> IF header[j] = NoName THEN "Unnamed: 0"
                              ELSE StrLabel(header[j])]

\* every line cut or filled with NaN to n fields
FitLines(lines, n) ==
    [i \in 1..Len(lines) |-> [j \in 1..n |->
        IF j <= Len(lines[i]) THEN lines[i][j] ELSE Null]]

\* mutant: a file that is absent gives an empty table
read_data_reset(t, declared, f, index_col) ==
    [df |-> NewStoreDf(declared), raised |-> "none", result |-> f.exists]

\* DataStorage.read_data: result is the boolean returned
read_data(t, declared, f, index_col) ==
    LET failed(exc) == [df |-> t, raised |-> exc, result |-> FALSE]
        loaded(frame) == [df |-> frame, raised |-> "none", result |-> TRUE]
    IN IF ~f.exists THEN [df |-> t, raised |-> "none", result |-> FALSE]
       ELSE IF declared # NoColumns
       THEN \* read_csv(names = self.columns): every line is data
            IF Len(f.rows) = 0 THEN failed("EmptyDataError")
            ELSE LET lines == f.rows
                     width == Len(lines[1])
                     n == Len(declared)
                 IN IF index_col = NoIndexCol
                    THEN \* missing trailing fields are NaN, fields beyond the names are dropped
                         loaded(FrameOf(declared, FitLines(lines, n), NoIndexCol))
                    ELSE IF width > n
                    THEN \* the width - n leading fields are an implicit index, popped
                         \* from the parsed columns by position index_col[i]
                         IF index_col # FirstColumn THEN failed("KeyError")
                         ELSE IF width - n > 1 THEN failed("IndexError")
                         ELSE loaded([index |-> [i \in 1..Len(lines) |-> lines[i][1]],
                                      index_name |-> NoName,
                                      columns |-> declared,
                                      data |-> [i \in 1..Len(lines) |->
                                                  [c \in Range(declared) |->
                                                      lines[i][1 + CHOOSE j \in 1..n :
                                                                      declared[j] = c]]]])
                    ELSE IF index_col # FirstColumn /\ index_col \notin Range(declared)
                    THEN failed("ValueError")
                    ELSE loaded(FrameOf(declared, FitLines(lines, n),
                                        IF index_col = FirstColumn THEN declared[1]
                                        ELSE index_col))
       ELSE \* read_csv(header = 0): the first line names the columns
            IF ~f.has_header \/ Len(f.header) = 0 THEN failed("EmptyDataError")
            ELSE LET names == HeaderNames(f.header)
                 IN IF index_col \notin {NoIndexCol, FirstColumn} /\ index_col \notin Range(names)
                    THEN failed("ValueError")
                    ELSE loaded(FrameOf(names, f.rows,
                                        IF index_col = FirstColumn THEN names[1]
                                        ELSE index_col))

(***************************************************************************)
(* FMP._add_entries_to_ds(ds, entries).  list(set - set) has no fixed      *)
(* order: row_order and column_order are the orders the two loops visit    *)
(* missing_rows and missing_columns in.                                    *)
(***************************************************************************)
\* mutant: every label of the batch is taken as missing
missing_rows_all(t, e) == KeySet(e)
missing_rows(t, e) == KeySet(e) \ KeySet(t)
missing_columns(t, e) == ColSet(e) \ ColSet(t)

Orders(S) == {o \in [1..Cardinality(S) -> S] : Range(o) = S}

\* for row in missing_rows: ds.df.loc[row, :] = math.nan
WithMissingRows(t, row_order) ==
    [t EXCEPT !.index = @ \o row_order,
              !.data = @ \o [i \in 1..Len(row_order) |-> [c \in ColSet(t) |-> Null]]]

\* mutant: no column is added
WithoutMissingColumns(t, column_order) == t

\* for column in missing_columns: ds.df.loc[:, column] = math.nan
WithMissingColumns(t, column_order) ==
    [t EXCEPT !.columns = @ \o column_order,
              !.data = [i \in 1..NRows(t) |->
                          [c \in ColSet(t) \cup Range(column_order) |->
                              IF c \in ColSet(t) THEN t.data[i][c] ELSE Null]]]

\* mutant: the reindexed batch replaces the cells, NaN included
df_replace(t, e) ==
    [t EXCEPT !.data = [i \in 1..NRows(t) |-> [c \in ColSet(t) |->
        IF c \in ColSet(e) /\ t.index[i] \in KeySet(e)
        THEN e.data[CHOOSE r \in 1..NRows(e) : e.index[r] = t.index[i]][c]
        ELSE Null]]]

\* mutant: update(overwrite = False), only NaN cells are filled
df_update_no_overwrite(t, e) ==
    [t EXCEPT !.data = [i \in 1..NRows(t) |-> [c \in ColSet(t) |->
        IF t.data[i][c] = Null /\ c \in ColSet(e) /\ t.index[i] \in KeySet(e)
        THEN e.data[CHOOSE r \in 1..NRows(e) : e.index[r] = t.index[i]][c]
        ELSE t.data[i][c]]]]

\* ds.df.update(entries): entries is reindexed like ds.df, then every cell of
\* ds.df whose reindexed counterpart is not NaN is overwritten
df_update(t, e) ==
    LET that(i, c) ==
            IF c \notin ColSet(e) THEN Null
            ELSE IF e.index = t.index THEN e.data[i][c]
            ELSE IF t.index[i] \notin KeySet(e) THEN Null
            ELSE e.data[CHOOSE r \in 1..NRows(e) : e.index[r] = t.index[i]][c]
    IN [t EXCEPT !.data = [i \in 1..NRows(t) |-> [c \in ColSet(t) |->
            IF that(i, c) # Null THEN that(i, c) ELSE t.data[i][c]]]]

add_entries_to_ds(t, e, row_order, column_order) ==
    LET t1 == WithMissingRows(t, row_order)
    IN IF Len(column_order) > 0 /\ NRows(t1) = 0
       THEN Raise(t1, "ValueError")
       ELSE LET t2 == WithMissingColumns(t1, column_order)
            IN IF ~IsUnique(e.index) /\ e.index # t2.index
               THEN Raise(t2, "ValueError")   \* cannot reindex from a duplicate axis
               ELSE Ok(df_update(t2, e))

(***************************************************************************)
(* Inputs of the DataStorage calls.                                        *)
(***************************************************************************)
D1 == strftime(1)       \* the date string of day 1
D2 == strftime(2)       \* the date string of day 2
D1alt == D1 + 1         \* day 1 again, spelt without zero padding
KeyPool == {D1, D2, D1alt}

DeclaredPool == {NoColumns, <<"b", "a">>}
ColumnNamePool == {"a", "c"}
RowPool(w) == {[j \in 1..w |-> IF j = 1 THEN a ELSE b] : a \in {1, 2}, b \in {Null, 2}}
RowsPool(w) == {<<r>> : r \in RowPool(w)}
               \cup {<<[j \in 1..w |-> 1], [j \in 1..w |-> IF j = 1 THEN 2 ELSE Null]>>}
IndicesPool(m) == {NoIndices} \cup
                  (IF m = 1 THEN {<<k>> : k \in KeyPool} ELSE {<<D1, D2>>, <<D2, D2>>})
WidthPool(t) == IF Len(t.columns) = 0 THEN {1, 2} ELSE {Len(t.columns)}
ConditionPool == Conditions \cup {"ge"}
ConditionValuePool == {Null, 1}
IndexColPool == {NoIndexCol, FirstColumn, "a"}

\* the other frames handed to intersect_on_column with the table of the store
Frame(keys, cols, cells) ==
    [index |-> keys, index_name |-> NoName, columns |-> cols,
     data |-> [i \in 1..Len(keys) |-> [c \in Range(cols) |-> cells[i][c]]]]
OtherFrame1 == Frame(<<0, 1, 2>>, <<"a", "c">>,
                     <<[a |-> 2, c |-> 1], [a |-> 1, c |-> 2], [a |-> 2, c |-> Null]>>)
OtherFrame2 == Frame(<<D2, D1>>, <<"a">>, <<[a |-> Null], [a |-> 2]>>)
OtherFrame3 == Frame(<<0>>, <<"a">>, <<[a |-> 1]>>)
DataframesPool(t) == {<<t, OtherFrame1>>, <<OtherFrame2, t>>, <<OtherFrame1, t, OtherFrame2>>,
                      <<t, OtherFrame3>>}

\* batches handed to _add_entries_to_ds: frames indexed by date
Batch(keys, cols, cells) ==
    [index |-> keys, index_name |-> "date", columns |-> cols,
     data |-> [i \in 1..Len(keys) |-> [c \in Range(cols) |-> cells[i][c]]]]
BatchPool ==
    { Batch(<<D2>>, <<"a">>, <<[a |-> 2]>>),
      Batch(<<D1, D2>>, <<"a", "title">>, <<[a |-> Null, title |-> 1], [a |-> 1, title |-> 2]>>),
      Batch(<<D2, D1alt>>, <<"title">>, <<[title |-> 2], [title |-> Null]>>),
      Batch(<<D1, D1>>, <<"a">>, <<[a |-> 1], [a |-> 2]>>) }

(***************************************************************************)
(* The FMP run is idle in StoreSpec; its variables keep these values.      *)
(***************************************************************************)
NoCrossCheck == [dict_key |-> "<None>", series |-> <<>>]
NoEntries == DataFrame(<<>>)

RunIdle ==
    /\ pc = "idle"
    /\ cross_check = NoCrossCheck
    /\ curr_page = -1
    /\ response_list = <<>>
    /\ pages = <<>>
    /\ entries = NoEntries
    /\ now = 0
    /\ loop_start_time = 0
    /\ starts = <<>>
    /\ slept = <<>>
    /\ steps = <<>>
    /\ error = "none"

(***************************************************************************)
(* StoreSpec: a DataStorage object after __init__, and the calls made on   *)
(* it (at most MaxOps of them).                                            *)
(***************************************************************************)
StoreInit ==
    /\ columns \in DeclaredPool
    /\ df = NewStoreDf(columns)
    /\ file = NoFile
    /\ RunIdle
    /\ endpoint = "none"
    /\ df0 = df
    /\ file0 = file
    /\ lastOp = [op |-> "init", args |-> <<>>, raised |-> "none", result |-> FALSE]
    /\ pre = df
    /\ nops = 0

\* what every DataStorage call does to the bookkeeping variables
Called(op, args, out, result) ==
    /\ nops < MaxOps
    /\ df' = out.df
    /\ pre' = df
    /\ lastOp' = [op |-> op, args |-> args, raised |-> out.raised, result |-> result]
    /\ nops' = nops + 1
    /\ UNCHANGED <<columns, runVars>>

AddColumn ==
    \E name \in ColumnNamePool, default \in {Null, 1} :
        /\ Called("add_column", [column_name |-> name, default_value |-> default],
                  add_column(df, name, default), FALSE)
        /\ UNCHANGED file

AddRows ==
    \E w \in WidthPool(df) : \E rows \in RowsPool(w) : \E indices \in IndicesPool(Len(rows)) :
        /\ Called("add_rows", [rows |-> rows, indices |-> indices],
                  add_rows(df, rows, indices), FALSE)
        /\ UNCHANGED file

UpdateRows ==
    \E column \in ColSet(df), condition \in ConditionPool, value \in ConditionValuePool :
        /\ Called("update_rows",
                  [column |-> column, condition |-> condition, value |-> value,
                   columns_to_update |-> {column}, update_value |-> 2],
                  update_rows(df, column, condition, value, {column}, 2), FALSE)
        /\ UNCHANGED file

GetRows ==
    \E column \in ColSet(df), condition \in ConditionPool, value \in ConditionValuePool :
        LET out == get_rows_by_condition(df, column, condition, value)
        IN /\ Called("get_rows_by_condition",
                     [column |-> column, condition |-> condition, value |-> value],
                     out, out.result)
           /\ UNCHANGED file

RemoveRows ==
    \E column \in ColSet(df), condition \in ConditionPool, value \in ConditionValuePool :
        /\ Called("remove_rows_by_condition",
                  [column |-> column, condition |-> condition, value |-> value],
                  remove_rows_by_condition(df, column, condition, value), FALSE)
        /\ UNCHANGED file

SortDates ==
    /\ Called("sort_ds_dates", <<>>, sort_ds_dates(df), FALSE)
    /\ UNCHANGED file

SaveData ==
    \E save_index \in BOOLEAN :
        /\ Called("save_data", [save_index |-> save_index], Ok(df), FALSE)
        /\ file' = save_data(df, columns, save_index)

ReadData ==
    \E index_col \in IndexColPool :
        LET out == read_data(df, columns, file, index_col)
        IN /\ Called("read_data", [index_col |-> index_col], out, out.result)
           /\ UNCHANGED file

IntersectOnColumn ==
    \E dataframes \in DataframesPool(df) :
        LET out == intersect_on_column(dataframes, "a")
        IN /\ Called("intersect_on_column",
                     [dataframes |-> dataframes, column_name |-> "a"],
                     [df |-> df, raised |-> out.raised], out.result)
           /\ UNCHANGED file

Merge ==
    \E batch \in BatchPool :
        \E row_order \in Orders(missing_rows(df, batch)) :
            \E column_order \in Orders(missing_columns(df, batch)) :
                /\ Called("add_entries_to_ds",
                          [entries |-> batch, row_order |-> row_order,
                           column_order |-> column_order],
                          add_entries_to_ds(df, batch, row_order, column_order), FALSE)
                /\ UNCHANGED file

StoreNext ==
    \/ AddColumn
    \/ AddRows
    \/ UpdateRows
    \/ GetRows
    \/ RemoveRows
    \/ SortDates
    \/ SaveData
    \/ ReadData
    \/ IntersectOnColumn
    \/ Merge

StoreSpec == StoreInit /\ [][StoreNext]_vars

(***************************************************************************)
(* The remote source.  A record is a flat JSON object: a function from raw *)
(* field names to values.  The news endpoint names its date field          *)
(* publishedDate, the social sentiment endpoint names it date.             *)
(***************************************************************************)
RawFields == <<"symbol", "publishedDate", "date", "title", "image", "stocktwitsSentiment">>

NewsRecord(d, t) == [symbol |-> 1, publishedDate |-> d, title |-> t, image |-> 1]
NewsNoDate(t) == [symbol |-> 1, title |-> t, image |-> 1]
SocialRecord(d, v) == [symbol |-> 1, date |-> d, stocktwitsSentiment |-> v]
SocialNoDate(v) == [symbol |-> 1, stocktwitsSentiment |-> v]

PagePool(ep) ==
    IF ep = "news"
    THEN { <<>>,
           <<NewsRecord(D2, 2)>>,
           <<NewsRecord(D2, 2), NewsRecord(D1, 1)>>,
           <<NewsRecord(D1, 1)>>,
           <<NewsNoDate(1)>> }
    ELSE { <<>>,
           <<SocialRecord(D2, 2)>>,
           <<SocialRecord(D2, 1), SocialRecord(D1, 1)>>,
           <<SocialRecord(D1, 2)>>,
           <<SocialNoDate(1)>> }

\* the objects of one run all have the same fields
SameShape(list, page) ==
    \A i \in 1..Len(list), j \in 1..Len(page) : DOMAIN list[i] = DOMAIN page[j]

\* FMP.CALL_DELAY = 60 / 300 seconds, in ticks
CALL_DELAY == (60 * TicksPerSecond) \div 300

(***************************************************************************)
(* FMP._read_entries after the paging loop, and the column drop of read_*. *)
(***************************************************************************)
\* pd.json_normalize(response_list)
json_normalize(list) ==
    LET cols == Pick(RawFields, {j \in 1..Len(RawFields) :
                                    \E i \in 1..Len(list) : RawFields[j] \in DOMAIN list[i]})
    IN [index |-> [i \in 1..Len(list) |-> i - 1],
        index_name |-> NoName,
        columns |-> cols,
        data |-> [i \in 1..Len(list) |-> [c \in Range(cols) |->
                    IF c \in DOMAIN list[i] THEN list[i][c] ELSE Null]]]

\* DataFrame.rename(columns = mapper): mapper[x] is the new name of column x
RenameColumns(t, mapper) ==
    [t EXCEPT !.columns = [j \in 1..Len(t.columns) |-> mapper[t.columns[j]]],
              !.data = [i \in 1..NRows(t) |->
                          [c \in {mapper[x] : x \in ColSet(t)} |->
                              t.data[i][CHOOSE x \in ColSet(t) : mapper[x] = c]]]]

\* response_df.rename(columns = {"publishedDate": "date"})
PublishedDateToDate(name) == IF name = "publishedDate" THEN "date" ELSE name

\* re.sub(r'(?<!^)(?=[A-Z])', '_', name).lower() on the field names of the model
camel_case_to_snake_case(name) ==
    CASE name = "publishedDate" -> "published_date"
      [] name = "stocktwitsSentiment" -> "stocktwits_sentiment"
      [] OTHER -> name

\* DataFrame.set_index(name)
set_index(t, name) ==
    [index |-> [i \in 1..NRows(t) |-> t.data[i][name]],
     index_name |-> name,
     columns |-> Pick(t.columns, {j \in 1..Len(t.columns) : t.columns[j] # name}),
     data |-> [i \in 1..NRows(t) |-> [c \in ColSet(t) \ {name} |-> t.data[i][c]]]]

\* DataFrame.drop(columns = names)
drop_columns(t, names) ==
    IF ~(names \subseteq ColSet(t)) THEN Raise(t, "KeyError")
    ELSE Ok([t EXCEPT
               !.columns = Pick(t.columns, {j \in 1..Len(t.columns) : t.columns[j] \notin names}),
               !.data = [i \in 1..NRows(t) |-> [c \in ColSet(t) \ names |-> t.data[i][c]]]])

\* mutant: the empty batch is not refused
read_entries_unchecked(list, is_news) ==
    LET response_df == json_normalize(list)
        renamed == IF is_news
                   THEN RenameColumns(response_df,
                            [x \in ColSet(response_df) |-> PublishedDateToDate(x)])
                   ELSE response_df
    IN IF "date" \notin ColSet(renamed) THEN Raise(NoEntries, "MissingKey")
       ELSE LET indexed == set_index(renamed, "date")
            IN Ok(RenameColumns(indexed,
                          [x \in ColSet(indexed) |-> camel_case_to_snake_case(x)]))

\* lines 282-305 of _read_entries: the returned frame, or the exception
read_entries_result(list, is_news) ==
    IF Len(list) = 0 THEN Raise(NoEntries, "NoData")
    ELSE LET response_df == json_normalize(list)
             renamed == IF is_news
                        THEN RenameColumns(response_df,
                                 [x \in ColSet(response_df) |-> PublishedDateToDate(x)])
                        ELSE response_df
         IN IF "date" \notin ColSet(renamed) THEN Raise(NoEntries, "MissingKey")
            ELSE LET indexed == set_index(renamed, "date")
                 IN Ok(RenameColumns(indexed,
                          [x \in ColSet(indexed) |-> camel_case_to_snake_case(x)]))

columns_to_remove(ep) == IF ep = "news" THEN {"symbol", "image"} ELSE {"symbol"}

\* cross_check["series"].eq(value).any()
InSeries(series, value) == value # Null /\ \E i \in 1..Len(series) : series[i] = value

\* mutant: the run never passes a cross-check
CrossCheckNever(t, ep) == NoCrossCheck

\* the cross_check dictionary read_news / read_social_sentiment build
CrossCheckOf(t, ep) ==
    IF NRows(t) = 0 THEN NoCrossCheck
    ELSE IF ep = "news"
    THEN [dict_key |-> "title", series |-> [i \in 1..NRows(t) |-> t.data[i]["title"]]]
    ELSE [dict_key |-> "date", series |-> t.index]

\* mutant: the first record is cross-checked
cross_check_first(list, dict_key) == list[1][dict_key]

\* response_list[-1][cross_check["dict_key"]]
cross_check_value(list, dict_key) == list[Len(list)][dict_key]

\* mutant: the page replaces the batch
AccumulateLatest(list, page) == page

\* response_list += response.json()
Accumulate(list, page) == list \o page

\* mutant: the delay is one tick short
LoopDelayShort(loop_total_time) == CALL_DELAY - loop_total_time - 1

\* loop_delay = FMP.CALL_DELAY - loop_total_time
LoopDelay(loop_total_time) == CALL_DELAY - loop_total_time
\* if loop_delay > 0: time.sleep(loop_delay)
SleepTime(loop_delay) == IF loop_delay > 0 THEN loop_delay ELSE 0

\* FMP._load_data on a store without a file
FreshDf(ep) ==
    [DataFrame(IF ep = "news" THEN <<"sentiment", "sentiment_probability">> ELSE <<>>)
        EXCEPT !.index_name = "date"]

(***************************************************************************)
(* Spec: one FMP object and its store (the news store or the social        *)
(* sentiment store), and the synchronisation runs made on it.              *)
(***************************************************************************)
NoCall == [op |-> "init", args |-> <<>>, raised |-> "none", result |-> FALSE]

\* FMP.__init__ / _load_data: the table is read from the file when there is one
LoadedDf(ep, f) ==
    IF f.exists THEN read_data(DataFrame(<<>>), NoColumns, f, "date").df ELSE FreshDf(ep)

Init ==
    /\ endpoint \in {"news", "social"}
    /\ columns = NoColumns
    /\ file = NoFile
    /\ df = FreshDf(endpoint)
    /\ RunIdle
    /\ df0 = df
    /\ file0 = file
    /\ lastOp = NoCall
    /\ pre = df
    /\ nops = 0

Fail(exc) ==
    /\ pc' = "failed"
    /\ error' = exc

\* read_news / read_social_sentiment up to the call of _read_entries
StartRun ==
    /\ pc \in {"idle", "done", "failed"}
    /\ df0' = df
    /\ file0' = file
    /\ curr_page' = -1
    /\ response_list' = <<>>
    /\ pages' = <<>>
    /\ entries' = NoEntries
    /\ now' = 0
    /\ loop_start_time' = 0
    /\ starts' = <<>>
    /\ slept' = <<>>
    /\ steps' = <<>>
    /\ IF NRows(df) > 0 /\ endpoint = "news" /\ "title" \notin ColSet(df)
       THEN /\ Fail("KeyError")
            /\ cross_check' = NoCrossCheck
       ELSE /\ pc' = "paging"
            /\ error' = "none"
            /\ cross_check' = CrossCheckOf(df, endpoint)
    /\ UNCHANGED <<storeVars, endpoint, callVars>>

\* mutant: the loop is left after every page, empty or not
ReadPageStopsEarly ==
    /\ pc = "paging"
    /\ \E page \in PagePool(endpoint), latency \in 0..MaxLatency :
        /\ SameShape(response_list, page)
        /\ curr_page + 1 >= MaxPages - 1 => page = <<>>
        /\ loop_start_time' = now
        /\ starts' = Append(starts, now)
        /\ curr_page' = curr_page + 1
        /\ pages' = Append(pages, page)
        /\ response_list' = Accumulate(response_list, page)
        /\ now' = now + latency
        /\ pc' = "fetched"
        /\ UNCHANGED <<slept, error>>
    /\ UNCHANGED <<storeVars, endpoint, cross_check, entries, steps, df0, file0, callVars>>

\* one iteration of the while loop of _read_entries: the request for the next
\* page (it takes latency ticks), the two break tests, the delay.  time.sleep
\* returns after exactly the time asked for, the least it may take.  The page
\* of index MaxPages - 1 is empty.
ReadPage ==
    /\ pc = "paging"
    /\ \E page \in PagePool(endpoint), latency \in 0..MaxLatency :
        /\ SameShape(response_list, page)
        /\ curr_page + 1 >= MaxPages - 1 => page = <<>>
        /\ loop_start_time' = now
        /\ starts' = Append(starts, now)
        /\ curr_page' = curr_page + 1
        /\ pages' = Append(pages, page)
        /\ IF Len(page) = 0
           THEN /\ pc' = "fetched"
                /\ now' = now + latency
                /\ UNCHANGED <<response_list, slept, error>>
           ELSE /\ response_list' = Accumulate(response_list, page)
                /\ IF cross_check # NoCrossCheck
                      /\ cross_check.dict_key \notin DOMAIN page[Len(page)]
                   THEN /\ Fail("KeyError")
                        /\ now' = now + latency
                        /\ UNCHANGED slept
                   ELSE IF cross_check # NoCrossCheck
                           /\ InSeries(cross_check.series,
                                       cross_check_value(response_list',
                                                         cross_check.dict_key))
                   THEN /\ pc' = "fetched"
                        /\ now' = now + latency
                        /\ UNCHANGED <<slept, error>>
                   ELSE LET loop_end_time == now + latency
                            loop_total_time == loop_end_time - loop_start_time'
                            loop_delay == LoopDelay(loop_total_time)
                        IN /\ slept' = Append(slept, [loop_total_time |-> loop_total_time,
                                                      delay |-> SleepTime(loop_delay)])
                           /\ now' = now + latency + SleepTime(loop_delay)
                           /\ UNCHANGED <<pc, error>>
    /\ UNCHANGED <<storeVars, endpoint, cross_check, entries, steps, df0, file0, callVars>>

\* mutant: the request that failed is made again for the same page
RequestRetried ==
    /\ pc = "paging"
    /\ Len(starts) < MaxPages
    /\ loop_start_time' = now
    /\ starts' = Append(starts, now)
    /\ UNCHANGED <<storeVars, pc, endpoint, cross_check, curr_page, response_list, pages,
                   entries, now, slept, steps, df0, file0, error, callVars>>

\* requests.get raises: the exception leaves _read_entries and read_*
RequestFails ==
    /\ pc = "paging"
    /\ curr_page + 1 < MaxPages
    /\ loop_start_time' = now
    /\ starts' = Append(starts, now)
    /\ curr_page' = curr_page + 1
    /\ Fail("ConnectionError")
    /\ UNCHANGED <<storeVars, endpoint, cross_check, response_list, pages, entries, now,
                   slept, steps, df0, file0, callVars>>

\* the rest of _read_entries and entries.drop(columns = columns_to_remove)
Normalize ==
    /\ pc = "fetched"
    /\ LET got == read_entries_result(response_list, endpoint = "news")
           kept == drop_columns(got.df, columns_to_remove(endpoint))
       IN IF got.raised # "none"
          THEN /\ Fail(got.raised)
               /\ UNCHANGED <<entries, steps>>
          ELSE IF kept.raised # "none"
          THEN /\ Fail(kept.raised)
               /\ UNCHANGED <<entries, steps>>
          ELSE /\ entries' = kept.df
               /\ steps' = Append(steps, "fetch")
               /\ pc' = "merge"
               /\ UNCHANGED error
    /\ UNCHANGED <<storeVars, endpoint, cross_check, curr_page, response_list, pages, now,
                   loop_start_time, starts, slept, df0, file0, callVars>>

\* FMP._add_entries_to_ds(ds, entries)
MergeStep ==
    /\ pc = "merge"
    /\ \E row_order \in Orders(missing_rows(df, entries)) :
        \E column_order \in Orders(missing_columns(df, entries)) :
            LET out == add_entries_to_ds(df, entries, row_order, column_order)
            IN /\ df' = out.df
               /\ IF out.raised # "none"
                  THEN /\ Fail(out.raised)
                       /\ UNCHANGED steps
                  ELSE /\ steps' = Append(steps, "merge")
                       /\ pc' = "sort"
                       /\ UNCHANGED error
    /\ UNCHANGED <<columns, file, endpoint, cross_check, curr_page, response_list, pages,
                   entries, now, loop_start_time, starts, slept, df0, file0, callVars>>

\* DataStorage.sort_ds_dates(ds, date_format)
SortStep ==
    /\ pc = "sort"
    /\ LET out == sort_ds_dates(df)
       IN /\ df' = out.df
          /\ IF out.raised # "none"
             THEN /\ Fail(out.raised)
                  /\ UNCHANGED steps
             ELSE /\ steps' = Append(steps, "sort")
                  /\ pc' = "save"
                  /\ UNCHANGED error
    /\ UNCHANGED <<columns, file, endpoint, cross_check, curr_page, response_list, pages,
                   entries, now, loop_start_time, starts, slept, df0, file0, callVars>>

\* mutant: the table is saved before it is sorted
SaveBeforeSort ==
    /\ pc = "sort"
    /\ file' = save_data(df, columns, TRUE)
    /\ steps' = Append(steps, "save")
    /\ pc' = "done"
    /\ UNCHANGED <<df, columns, endpoint, cross_check, curr_page, response_list, pages,
                   entries, now, loop_start_time, starts, slept, df0, file0, error, callVars>>

\* ds.save_data(save_index = True)
SaveStep ==
    /\ pc = "save"
    /\ file' = save_data(df, columns, TRUE)
    /\ steps' = Append(steps, "save")
    /\ pc' = "done"
    /\ UNCHANGED <<df, columns, endpoint, cross_check, curr_page, response_list, pages,
                   entries, now, loop_start_time, starts, slept, df0, file0, error, callVars>>

\* the process ends and a new FMP object is built for the symbol
Restart ==
    /\ pc \in {"done", "failed"}
    /\ df' = LoadedDf(endpoint, file)
    /\ pc' = "idle"
    /\ cross_check' = NoCrossCheck
    /\ curr_page' = -1
    /\ response_list' = <<>>
    /\ pages' = <<>>
    /\ entries' = NoEntries
    /\ now' = 0
    /\ loop_start_time' = 0
    /\ starts' = <<>>
    /\ slept' = <<>>
    /\ steps' = <<>>
    /\ error' = "none"
    /\ df0' = df'
    /\ file0' = file
    /\ UNCHANGED <<columns, file, endpoint, callVars>>

Next ==
    \/ StartRun
    \/ ReadPage
    \/ RequestFails
    \/ Normalize
    \/ MergeStep
    \/ SortStep
    \/ SaveStep
    \/ Restart

Spec == Init /\ [][Next]_vars

\* the runs in which the paging loop keeps running: the request of an
\* iteration returns or raises and its sleep returns, so an iteration that can
\* be made is made.  Starting a run and ending the process are the caller's
\* choice.
FairSpec == Spec /\ WF_vars(ReadPage)

(***************************************************************************)
(* Properties of the merge (StoreSpec).                                    *)
(***************************************************************************)
Merged == lastOp.op = "add_entries_to_ds"
MergedBatch == lastOp.args.entries

\* the value batch e holds for label k and column c (Null: none)
BatchValue(e, k, c) ==
    IF c \in ColSet(e) /\ k \in KeySet(e)
    THEN e.data[CHOOSE r \in 1..NRows(e) : e.index[r] = k][c]
    ELSE Null

\* C1: merge idempotence.  After a merge of batch B, merging B again (in any
\* order of the two loops) leaves the table exactly as it is: same labels,
\* same columns, same cells, and the same outcome.
C1_MergeIdempotent ==
    Merged =>
        \A row_order \in Orders(missing_rows(df, MergedBatch)) :
            \A column_order \in Orders(missing_columns(df, MergedBatch)) :
                LET again == add_entries_to_ds(df, MergedBatch, row_order, column_order)
                IN /\ again.df = df
                   /\ again.raised = lastOp.raised

\* a merge that added rows and columns and overwrote a cell
C1_Witness ==
    /\ Merged
    /\ lastOp.raised = "none"
    /\ NRows(pre) > 0
    /\ NRows(df) > NRows(pre)
    /\ Len(df.columns) > Len(pre.columns)
    /\ \E i \in 1..NRows(pre) : df.data[i] # [c \in ColSet(df) |->
                                    IF c \in ColSet(pre) THEN pre.data[i][c] ELSE Null]

\* C2: merge non-destructiveness.  After a merge no row of the table is
\* removed or moved, and every row whose label is not a label of the batch
\* has all the cells it had before, unchanged.
C2_MergeNonDestructive ==
    Merged =>
        /\ NRows(df) >= NRows(pre)
        /\ \A i \in 1..NRows(pre) :
            /\ df.index[i] = pre.index[i]
            /\ pre.index[i] \notin KeySet(MergedBatch) =>
                   \A c \in ColSet(pre) : c \in ColSet(df) /\ df.data[i][c] = pre.data[i][c]

\* a merge into a table holding a row with a non-null cell under a label the batch lacks
C2_Witness ==
    /\ Merged
    /\ lastOp.raised = "none"
    /\ \E i \in 1..NRows(pre) :
        /\ pre.index[i] \notin KeySet(MergedBatch)
        /\ \E c \in ColSet(pre) : pre.data[i][c] # Null
    /\ \E i \in 1..NRows(pre) : pre.index[i] \in KeySet(MergedBatch)

\* C3: merge overlay.  After a merge of a batch with unique labels that ended
\* normally, every cell for which the batch holds a non-null value holds that
\* value, and every other cell that existed before holds the value it had
\* (a cell of a new row or a new column is null).
C3_MergeOverlay ==
    (Merged /\ lastOp.raised = "none" /\ IsUnique(MergedBatch.index)) =>
        \A i \in 1..NRows(df) : \A c \in ColSet(df) :
            LET incoming == BatchValue(MergedBatch, df.index[i], c)
            IN IF incoming # Null THEN df.data[i][c] = incoming
               ELSE IF i <= NRows(pre) /\ c \in ColSet(pre)
               THEN df.data[i][c] = pre.data[i][c]
               ELSE df.data[i][c] = Null

\* a merge that overwrote a non-null cell with another value, and under the
\* same label kept a non-null cell for which the batch holds null or nothing
C3_Witness ==
    /\ Merged
    /\ lastOp.raised = "none"
    /\ IsUnique(MergedBatch.index)
    /\ \E i \in 1..NRows(pre) :
        /\ \E c \in ColSet(pre) :
            /\ pre.data[i][c] # Null
            /\ BatchValue(MergedBatch, pre.index[i], c) \notin {Null, pre.data[i][c]}
        /\ \E c \in ColSet(pre) :
            /\ pre.data[i][c] # Null
            /\ BatchValue(MergedBatch, pre.index[i], c) = Null
            /\ df.data[i][c] = pre.data[i][c]

(***************************************************************************)
(* Properties of the table (StoreSpec).                                    *)
(***************************************************************************)
\* C9: key uniqueness.  In every state reachable by DataStorage calls no two
\* rows of the table carry the same label, and every row has a cell for
\* every column.
C9_KeysUnique ==
    /\ IsUnique(df.index)
    /\ \A i \in 1..NRows(df) : DOMAIN df.data[i] = ColSet(df)

(***************************************************************************)
(* Properties of the fetch (Spec).                                         *)
(***************************************************************************)
RECURSIVE Concat(_)
Concat(ps) == IF Len(ps) = 0 THEN <<>> ELSE Concat(SubSeq(ps, 1, Len(ps) - 1)) \o ps[Len(ps)]

Sizes(ps) == [p \in 1..Len(ps) |-> Len(ps[p])]
Requests == Len(starts)
LoopLeft == pc \in {"fetched", "merge", "sort", "save", "done"}

\* the last record of the page carries a value the reference series holds
LastRecordKnown(page) ==
    /\ Len(page) > 0
    /\ cross_check.dict_key \in DOMAIN page[Len(page)]
    /\ page[Len(page)][cross_check.dict_key] # Null
    /\ \E i \in 1..Len(cross_check.series) :
           cross_check.series[i] = page[Len(page)][cross_check.dict_key]

\* C4: cross-check stop.  With a cross-check configured, a page whose last
\* record is known is the last page requested: the loop is left, p + 1
\* requests were issued for pages 0..p, and the batch holds every record of
\* pages 0..p in order (its size is the sum of the page sizes).
C4_CrossCheckStop ==
    cross_check # NoCrossCheck =>
        \A p \in 1..Len(pages) :
            LastRecordKnown(pages[p]) =>
                /\ p = Len(pages)
                /\ LoopLeft \/ pc = "failed"
                /\ Requests = p
                /\ curr_page = p - 1
                /\ response_list = Concat(pages)
                /\ Len(response_list) = SeqSum(Sizes(pages))

\* the second page ends with a known record after a first page that does not
C4_Witness ==
    /\ cross_check # NoCrossCheck
    /\ pc = "fetched"
    /\ Len(pages) = 2
    /\ LastRecordKnown(pages[2])
    /\ Len(pages[2]) = 2
    /\ Len(response_list) = 3

\* C5: empty-page stop.  An empty page is the last page requested; it adds
\* nothing, and the batch is the concatenation of the pages before it.
C5_EmptyPageStop ==
    \A p \in 1..Len(pages) :
        /\ Len(pages[p]) = 0 =>
            /\ p = Len(pages)
            /\ LoopLeft \/ pc = "failed"
            /\ Requests = p
            /\ response_list = Concat(SubSeq(pages, 1, p - 1))
        /\ (pc = "paging" /\ p = Len(pages)) => response_list = Concat(pages)

\* an empty page after two pages with records
C5_Witness ==
    /\ pc = "fetched"
    /\ Len(pages) = 3
    /\ Len(pages[3]) = 0
    /\ Len(response_list) = Len(pages[1]) + Len(pages[2])
    /\ Len(response_list) >= 3

\* C6: NoData.  A run whose page 0 is empty fails with NoData and with
\* nothing else; a run fails with NoData only then; no step of the pipeline
\* is made and the table and the file are those of the start of the run.
C6_NoDataUnchanged ==
    /\ (Len(pages) >= 1 /\ Len(pages[1]) = 0) =>
           /\ pc \in {"fetched", "failed"}
           /\ pc = "failed" => error = "NoData"
           /\ steps = <<>>
           /\ df = df0
           /\ file = file0
    /\ error = "NoData" =>
           /\ pc = "failed"
           /\ Len(pages) = 1
           /\ Len(pages[1]) = 0
           /\ Len(response_list) = 0

\* NoData on a store that holds rows and has a file
C6_Witness ==
    /\ error = "NoData"
    /\ NRows(df0) > 0
    /\ file0.exists
    /\ df = df0
    /\ file = file0

\* the batch holds records, and none has the date field of its endpoint
NoDateField ==
    /\ Len(response_list) > 0
    /\ \A i \in 1..Len(response_list) :
           (IF endpoint = "news" THEN "publishedDate" ELSE "date") \notin DOMAIN response_list[i]

C8_RateLimit ==
    /\ \A i \in 1..Len(slept) :
        /\ slept[i].delay = (IF CALL_DELAY - slept[i].loop_total_time > 0
                             THEN CALL_DELAY - slept[i].loop_total_time ELSE 0)
        /\ i + 1 <= Len(starts) =>
               starts[i + 1] = starts[i] + slept[i].loop_total_time + slept[i].delay
    /\ \A i \in 1..(Len(starts) - 1) : starts[i + 1] - starts[i] >= CALL_DELAY
    /\ Len(starts) >= 1 =>
           starts[Len(starts)] - starts[1] >= (Len(starts) - 1) * CALL_DELAY

\* three requests: one page took less than the interval, one at least the interval
C8_Witness ==
    /\ Len(starts) = 3
    /\ \E i \in 1..Len(slept) : slept[i].delay > 0 /\ slept[i].loop_total_time > 0
    /\ \E i \in 1..Len(slept) : slept[i].delay = 0

IsPrefix(s, t) == Len(s) <= Len(t) /\ \A i \in 1..Len(s) : s[i] = t[i]

\* C10: pipeline ordering.  The steps of a run are made in the order fetch,
\* merge, sort, save; save is made only after the three others and only in a
\* run without error; the file is written by save alone, and it holds the
\* sorted result of merging the batch of this run into the table the run
\* began with.
C10_PipelineOrder ==
    /\ IsPrefix(steps, <<"fetch", "merge", "sort", "save">>)
    /\ (Len(steps) = 4) = (pc = "done")
    /\ pc = "done" => error = "none"
    /\ pc # "done" => file = file0
    /\ pc = "done" =>
        \E row_order \in Orders(missing_rows(df0, entries)) :
            \E column_order \in Orders(missing_columns(df0, entries)) :
                LET merged == add_entries_to_ds(df0, entries, row_order, column_order)
                    sorted == sort_ds_dates(merged.df)
                IN /\ merged.raised = "none"
                   /\ sorted.raised = "none"
                   /\ df = sorted.df
                   /\ file = save_data(sorted.df, columns, TRUE)

\* a run that added rows to a table holding rows, and whose sort moved a row
C10_Witness ==
    /\ pc = "done"
    /\ NRows(df0) > 0
    /\ NRows(df) > NRows(df0)
    /\ df.index[1] \notin KeySet(df0)
    /\ file # file0

(***************************************************************************)
(* Properties of the predicate calls (StoreSpec).                          *)
(***************************************************************************)
PredicateCalls == {"get_rows_by_condition", "update_rows", "remove_rows_by_condition"}

\* C11: unknown operator.  A call of get_rows_by_condition, update_rows or
\* remove_rows_by_condition with an operator other than gt, lt, eq, neq ends
\* with an error and leaves the table as it was; it never returns normally.
C11_UnknownOperatorRaises ==
    (lastOp.op \in PredicateCalls /\ lastOp.args.condition \notin {"gt", "lt", "eq", "neq"}) =>
        /\ lastOp.raised # "none"
        /\ df = pre

\* the rows of table t the predicate (column, operator, value) selects, as the
\* specification words it: null tests for a null value, value comparison for
\* the others (the caller's null is None)
Selects(cell, operator, value) ==
    IF value = Null
    THEN CASE operator = "eq"  -> cell = Null
           [] operator = "neq" -> cell # Null
           [] OTHER -> FALSE
    ELSE CASE operator = "eq"  -> cell = value
           [] operator = "neq" -> cell # value
           [] operator = "gt"  -> cell # Null /\ cell > value
           [] operator = "lt"  -> cell # Null /\ cell < value
Selected(t, column, operator, value) ==
    {i \in 1..NRows(t) : Selects(t.data[i][column], operator, value)}

KnownPredicateCall ==
    /\ lastOp.op \in PredicateCalls
    /\ lastOp.args.condition \in {"gt", "lt", "eq", "neq"}
    /\ lastOp.raised = "none"

\* C12: null predicate semantics.  With a known operator the three calls
\* select the same rows: for eq / neq with a null value the rows whose cell is
\* null / not null, for a non-null value the rows whose cell satisfies the
\* comparison (a null cell never equals a non-null value).  The query returns
\* them, update_rows writes into them and into no other row, and
\* remove_rows_by_condition leaves none of them.
C12_NullPredicate ==
    KnownPredicateCall =>
        LET a == lastOp.args
            sel == Selected(pre, a.column, a.condition, a.value)
        IN /\ \A i \in sel : a.value # Null /\ a.condition = "eq" => pre.data[i][a.column] # Null
           /\ lastOp.op = "get_rows_by_condition" =>
                  lastOp.result = TakeRows(pre, sel)
           /\ lastOp.op = "update_rows" =>
                  \A i \in 1..NRows(pre) :
                      IF i \in sel
                      THEN \A c \in a.columns_to_update : df.data[i][c] = a.update_value
                      ELSE df.data[i] = pre.data[i]
           /\ lastOp.op = "remove_rows_by_condition" =>
                  /\ \A i \in sel : \A k \in 1..NRows(df) :
                         df.index[k] = pre.index[i] => df.data[k] # pre.data[i]
                  /\ sel = {} => df = pre

\* a query for null cells on a table that has a null and a non-null cell in the column
C12_Witness ==
    /\ KnownPredicateCall
    /\ lastOp.op = "get_rows_by_condition"
    /\ lastOp.args.condition = "eq"
    /\ lastOp.args.value = Null
    /\ NRows(lastOp.result) = 1
    /\ NRows(pre) = 2

\* C13: update_rows and remove_rows_by_condition touch exactly the matching
\* rows.  remove_rows_by_condition deletes the rows the query returns for the
\* same predicate and keeps every other row, cells unchanged, in order;
\* update_rows writes update_value into the columns_to_update cells of those
\* rows and changes no other cell.
C13_ExactlyMatchingRows ==
    (KnownPredicateCall /\ lastOp.op # "get_rows_by_condition") =>
        LET a == lastOp.args
            queried == get_rows_by_condition(pre, a.column, a.condition, a.value).result
            sel == Selected(pre, a.column, a.condition, a.value)
        IN /\ queried = TakeRows(pre, sel)
           /\ lastOp.op = "remove_rows_by_condition" =>
                  df = TakeRows(pre, (1..NRows(pre)) \ sel)
           /\ lastOp.op = "update_rows" =>
                  /\ df.index = pre.index
                  /\ df.columns = pre.columns
                  /\ \A i \in 1..NRows(pre) : \A c \in ColSet(pre) :
                         df.data[i][c] = IF i \in sel /\ c \in a.columns_to_update
                                         THEN a.update_value ELSE pre.data[i][c]

(***************************************************************************)
(* Properties of the date sort (StoreSpec).                                *)
(***************************************************************************)
Sorted == lastOp.op = "sort_ds_dates" /\ lastOp.raised = "none"

\* the rows of t are those of s in another order, each with the cells it had
\* and a key that parses to the date its key parsed to
SameRowsByDate(t, s) ==
    /\ NRows(t) = NRows(s)
    /\ \E o \in Orders(1..NRows(s)) :
           \A r \in 1..NRows(t) :
               /\ to_datetime(t.index[r]) = to_datetime(s.index[o[r]])
               /\ t.data[r] = s.data[o[r]]

\* order of rows and columns after a sort, and that a second sort changes nothing
SortedOrder ==
    /\ \A i, j \in 1..NRows(df) :
           i < j => to_datetime(df.index[i]) >= to_datetime(df.index[j])
    /\ \A j, k \in 1..Len(df.columns) :
           j < k => ColRank(df.columns[j]) <= ColRank(df.columns[k])
    /\ ColSet(df) = ColSet(pre)
    /\ SameRowsByDate(df, pre)
    /\ sort_ds_dates(df) = Ok(df)

\* C14: sort idempotence and order.  After sort_ds_dates the keys are
\* non-increasing under the date parse, every key is the string the format
\* renders for the date the key parsed to (the dates are unchanged as a
\* collection), the column names are in non-decreasing order, no cell
\* changes, and a second sort leaves rows and columns as they are.
C14_SortOrder ==
    Sorted =>
        /\ SortedOrder
        /\ \A r \in 1..NRows(df) : df.index[r] = strftime(to_datetime(df.index[r]))

\* a sort that reordered rows and columns
C14_Witness ==
    /\ Sorted
    /\ NRows(df) >= 2
    /\ df.index # pre.index
    /\ df.columns # pre.columns
    /\ to_datetime(df.index[1]) > to_datetime(df.index[NRows(df)])

\* C14 as stated: the same, with the key strings unchanged as a set
C14_SortKeepsKeyStrings ==
    Sorted =>
        /\ SortedOrder
        /\ KeySet(df) = KeySet(pre)

(***************************************************************************)
(* Properties of the intersection (StoreSpec).                             *)
(***************************************************************************)
Intersected == lastOp.op = "intersect_on_column" /\ lastOp.raised = "none"

\* the values of column c that occur in every one of the frames
InEvery(frames, c) ==
    {v \in Values : \A i \in 1..Len(frames) : \E r \in 1..NRows(frames[i]) : frames[i].data[r][c] = v}

\* C15: intersection correctness.  intersect_on_column returns one frame for
\* each of the n >= 2 frames given; frame i holds exactly the rows of input i
\* whose value in the column occurs in every input, in the order of input i,
\* so the values of the column in every output are the intersection of the
\* inputs' values.
C15_Intersection ==
    Intersected =>
        LET ins == lastOp.args.dataframes
            c == lastOp.args.column_name
            outs == lastOp.result
        IN /\ Len(outs) = Len(ins)
           /\ \A i \in 1..Len(ins) :
                  /\ outs[i] = TakeRows(ins[i], {r \in 1..NRows(ins[i]) :
                                                    ins[i].data[r][c] \in InEvery(ins, c)})
                  /\ Range(ColumnValues(outs[i], c)) = InEvery(ins, c)
           /\ df = pre

\* three frames with a value in common: a row is kept and a row is dropped
C15_Witness ==
    /\ Intersected
    /\ Len(lastOp.args.dataframes) = 3
    /\ InEvery(lastOp.args.dataframes, "a") # {}
    /\ \E i \in 1..3 : /\ NRows(lastOp.result[i]) < NRows(lastOp.args.dataframes[i])
                       /\ NRows(lastOp.result[i]) > 0
    /\ NRows(lastOp.result[2]) > 0

(***************************************************************************)
(* Properties of save and load (StoreSpec).                                *)
(***************************************************************************)
Saved == lastOp.op = "save_data"

\* the keys of the table are in the file: the index was saved, or the keys
\* are the positions 0, 1, .. that a load without index column gives back
KeysSaved ==
    \/ lastOp.args.save_index
    \/ df.index = [i \in 1..NRows(df) |-> i - 1]

\* the saved file, loaded by a new store with the same declared columns
Reloaded(index_col) == read_data(NewStoreDf(columns), columns, file, index_col)

\* C16: save / load round trip.  After save_data of a table whose keys are
\* saved, the file can be loaded (for some index_col) into a store with the
\* same declared columns so that the keys, the columns and the cells are
\* those of the table; without declared columns (and a table that has
\* columns, so that there is a header) the column names are the header's and
\* the keys and cells are those of the table.
C16_RoundTrip ==
    (Saved /\ KeysSaved /\ (columns = NoColumns => Len(df.columns) > 0)) =>
        \E index_col \in IndexColPool :
            LET back == Reloaded(index_col)
            IN /\ back.raised = "none"
               /\ back.result = TRUE
               /\ back.df.index = df.index
               /\ NRows(back.df) = NRows(df)
               /\ IF columns # NoColumns
                  THEN /\ back.df.columns = df.columns
                       /\ back.df.data = df.data
                  ELSE /\ back.df.columns = HeaderNames(df.columns)
                       /\ \A i \in 1..NRows(df) : \A j \in 1..Len(df.columns) :
                              back.df.data[i][back.df.columns[j]] = df.data[i][df.columns[j]]

(***************************************************************************)
(* Properties of add_rows (StoreSpec).                                     *)
(***************************************************************************)
RowsAdded == lastOp.op = "add_rows" /\ lastOp.raised = "none"

\* C17: add_rows without indices.  The m rows added to a table of n rows
\* are the last m rows of the table and carry the keys n, n + 1, ..,
\* n + m - 1 in order.
C17_DenseKeys ==
    (RowsAdded /\ lastOp.args.indices = NoIndices) =>
        LET n == NRows(pre)
            m == Len(lastOp.args.rows)
        IN /\ NRows(df) = n + m
           /\ \A i \in 1..m : df.index[n + i] = n + i - 1

\* two rows added without indices to a table that holds a row
C17_Witness ==
    /\ RowsAdded
    /\ lastOp.args.indices = NoIndices
    /\ NRows(pre) > 0
    /\ Len(lastOp.args.rows) = 2
    /\ df.index[NRows(df)] = NRows(pre) + 1

(***************************************************************************)
(* Properties of the merge, continued (StoreSpec).                         *)
(***************************************************************************)
\* batch e holds a non-null value for key k and column c
Supplies(e, k, c) ==
    c \in ColSet(e) /\ \E r \in 1..NRows(e) : e.index[r] = k /\ e.data[r][c] # Null

\* C18: the merge creates a destination for every incoming cell.  After a
\* merge of batch B the keys are those before and those of B, the columns
\* those before and those of B; one row is inserted for every key that was
\* missing; a cell of an inserted row or of an added column for which B
\* supplies no value is null.
C18_MergeCreatesDestinations ==
    Merged =>
        LET n == NRows(pre)
        IN /\ KeySet(df) = KeySet(pre) \cup KeySet(MergedBatch)
           /\ ColSet(df) = ColSet(pre) \cup ColSet(MergedBatch)
           /\ NRows(df) = n + Cardinality(KeySet(MergedBatch) \ KeySet(pre))
           /\ \A i \in 1..NRows(df) : \A c \in ColSet(df) :
                  ((i > n \/ c \notin ColSet(pre)) /\ ~Supplies(MergedBatch, df.index[i], c))
                      => df.data[i][c] = Null

\* a merge that inserted a row and added a column, with a cell the batch does
\* not supply in the inserted row and one in the added column of an old row
C18_Witness ==
    /\ Merged
    /\ lastOp.raised = "none"
    /\ NRows(pre) > 0
    /\ NRows(df) > NRows(pre)
    /\ \E c \in ColSet(pre) : ~Supplies(MergedBatch, df.index[NRows(df)], c)
    /\ \E c \in ColSet(df) \ ColSet(pre) : ~Supplies(MergedBatch, df.index[1], c)

(***************************************************************************)
(* Properties of the fetch, continued (Spec).                              *)
(***************************************************************************)
TransportError == error = "ConnectionError"

\* the page asked for is the number of requests made before in the run; a
\* run ended by a failed request made no step and left table and file alone
OnePageAtATime ==
    /\ curr_page = Requests - 1
    /\ TransportError =>
           /\ pc = "failed"
           /\ Len(pages) = Requests - 1
           /\ steps = <<>>
           /\ df = df0
           /\ file = file0

\* a request is made in the loop only, for the page after the last one asked
\* for; once a request has failed the run makes no other request
NextPageOnly ==
    /\ Len(starts') > Len(starts) =>
           /\ pc = "paging"
           /\ Len(starts') = Len(starts) + 1
           /\ curr_page' = curr_page + 1
    /\ (TransportError /\ starts' # starts) => (starts' = <<>> /\ pc' # "failed")

\* C19: no retries.  In a run the pages are requested in the order 0, 1, 2,
\* .. without gap and each at most once; a request that fails ends the run
\* at once with the transport error: no further request, no merge, no save,
\* table and file as they were.
C19_NoRetries == [](OnePageAtATime) /\ [][NextPageOnly]_vars

\* the second request of a run on a store that holds rows failed
C19_Witness ==
    /\ TransportError
    /\ Requests = 2
    /\ Len(pages) = 1
    /\ NRows(df0) > 0

(***************************************************************************)
(* Properties of load (StoreSpec).                                         *)
(***************************************************************************)
\* the step is a call of read_data
ReadDataCalled == nops' = nops + 1 /\ lastOp'.op = "read_data"

\* what a call of read_data does, by whether the file exists
LoadOutcome ==
    ReadDataCalled =>
        /\ ~file.exists =>
               /\ lastOp'.result = FALSE
               /\ lastOp'.raised = "none"
               /\ df' = df
        /\ lastOp'.result = TRUE =>
               /\ file.exists
               /\ lastOp'.raised = "none"
               /\ NRows(df') = Len(file.rows)
        /\ columns' = columns
        /\ file' = file

\* C20: load of an absent file.  read_data returns False when the file does
\* not exist, without an error, and leaves the table, the declared columns
\* and the file as they are; it returns True only when the file exists and
\* was read into the table.
C20_LoadAbsentFile == [][LoadOutcome]_vars

\* read_data returned False on a store whose table holds rows and whose file is absent
C20_Witness ==
    /\ lastOp.op = "read_data"
    /\ lastOp.result = FALSE
    /\ lastOp.raised = "none"
    /\ ~file.exists
    /\ NRows(df) > 0

(***************************************************************************)
(* Properties of the cross-check (Spec).                                   *)
(***************************************************************************)
RunStarted == pc \in {"paging", "fetched", "merge", "sort", "save", "done"}
              \/ (pc = "failed" /\ Requests > 0)

\* the values of the store the cross-check of the endpoint refers to, at the
\* start of the run: the titles of the news table, the dates of the social
\* sentiment table
ReferenceValues ==
    IF endpoint = "news" THEN [i \in 1..NRows(df0) |-> df0.data[i]["title"]]
    ELSE df0.index

\* C21: the cross-check is absent exactly on an empty store.  A run has a
\* cross-check if and only if the table held a row when the run began, and
\* then its reference values are the values the table held at that moment;
\* without a cross-check the loop is left on an empty page only, every page
\* before it being in the batch.
C21_CrossCheckIffRows ==
    RunStarted =>
        /\ (cross_check # NoCrossCheck) = (NRows(df0) > 0)
        /\ cross_check # NoCrossCheck =>
               /\ cross_check.series = ReferenceValues
               /\ cross_check.dict_key = (IF endpoint = "news" THEN "title" ELSE "date")
        /\ (cross_check = NoCrossCheck /\ LoopLeft) =>
               /\ Len(pages[Len(pages)]) = 0
               /\ \A p \in 1..(Len(pages) - 1) : Len(pages[p]) > 0
               /\ response_list = Concat(pages)

\* a run on a store that holds two rows pages with a cross-check on their values
C21_Witness ==
    /\ pc = "paging"
    /\ Requests = 1
    /\ NRows(df0) = 2
    /\ cross_check # NoCrossCheck
    /\ Len(cross_check.series) = 2
    /\ Len(response_list) > 0

(***************************************************************************)
(* Properties of the batch (Spec).                                         *)
(***************************************************************************)
\* _read_entries has returned its frame in this run
BatchReturned == Len(steps) >= 1 /\ steps[1] = "fetch"

\* C22: the batch is a table with unique keys.  The frame _read_entries
\* returns, and _add_entries_to_ds receives, has no two rows with the same
\* date, whatever pages the remote source returned.
C22_BatchKeysUnique ==
    BatchReturned => IsUnique(entries.index)

(***************************************************************************)
(* Properties of add_rows, continued (StoreSpec).                          *)
(***************************************************************************)
\* C23 as stated: add_rows appends without disturbing the rows of the table.
\* After add_rows, with or without indices, the rows the table held are its
\* first rows, in the order they were in, each with the key and the cells it
\* had, and the new rows follow them.
C23_AddRowsKeepsRows ==
    RowsAdded =>
        LET n == NRows(pre)
            m == Len(lastOp.args.rows)
        IN /\ NRows(df) = n + m
           /\ \A i \in 1..n :
                  /\ df.index[i] = pre.index[i]
                  /\ \A c \in ColSet(pre) : df.data[i][c] = pre.data[i][c]
           /\ \A i \in 1..m : \A j \in 1..Len(df.columns) :
                  df.data[n + i][df.columns[j]] = lastOp.args.rows[i][j]

\* C23: add_rows appends and keeps the cells and the order of the rows of the
\* table.  After add_rows the rows the table held are its first rows, in the
\* order they were in and with the cells they had, and the new rows follow
\* them with the values given; with indices the rows of the table keep their
\* keys, without indices every row is keyed by its position, so a row of the
\* table keeps its key exactly when the key was its position.
C23_AddRowsAppends ==
    RowsAdded =>
        LET n == NRows(pre)
            m == Len(lastOp.args.rows)
        IN /\ NRows(df) = n + m
           /\ \A i \in 1..n :
                  /\ df.index[i] = (IF lastOp.args.indices = NoIndices
                                    THEN i - 1 ELSE pre.index[i])
                  /\ \A c \in ColSet(pre) : df.data[i][c] = pre.data[i][c]
           /\ \A i \in 1..m : \A j \in 1..Len(df.columns) :
                  df.data[n + i][df.columns[j]] = lastOp.args.rows[i][j]

\* a row without indices added to a table whose row is keyed by a date
C23_Witness ==
    /\ RowsAdded
    /\ lastOp.args.indices = NoIndices
    /\ NRows(pre) = 1
    /\ pre.index[1] = D1
    /\ df.index = <<0, 1>>
    /\ df.data[1] = pre.data[1]

(***************************************************************************)
(* Termination of the paging loop (FairSpec).                              *)
(***************************************************************************)
\* the page ends the loop: it is empty or, with a cross-check, its last record
\* carries a reference value
StopPage(page) ==
    \/ Len(page) = 0
    \/ (cross_check # NoCrossCheck /\ LastRecordKnown(page))

\* the loop of _read_entries has been left, by a break or by an exception
FetchEnded == LoopLeft \/ pc = "failed"

\* the loop runs only past pages that do not end it, one request a page; it
\* is left normally only on the first page that ends it, after as many
\* requests as that page's index plus one
StopsOnFirstStopPage ==
    /\ \A p \in 1..Len(pages) : StopPage(pages[p]) => (p = Len(pages) /\ pc # "paging")
    /\ pc = "paging" => (Requests = Len(pages) /\ curr_page = Len(pages) - 1)
    /\ LoopLeft =>
           /\ Len(pages) >= 1
           /\ StopPage(pages[Len(pages)])
           /\ Requests = Len(pages)
           /\ curr_page = Len(pages) - 1

\* C24: bounded pagination.  The remote source returning an empty page at
\* some page index, the paging loop of every fetch ends, by a break or by an
\* exception.
\* The loop is left normally on the first page that is empty or, with a
\* cross-check, whose last record carries a reference value, after exactly
\* that page's index plus one requests, and on no other page.
C24_BoundedPagination ==
    /\ [](StopsOnFirstStopPage)
    /\ (pc = "paging") ~> FetchEnded

\* a run that stopped on the cross-check at page 1 after two requests and
\* went on to the end
C24_Witness ==
    /\ pc = "done"
    /\ cross_check # NoCrossCheck
    /\ Len(pages) = 2
    /\ LastRecordKnown(pages[2])
    /\ ~StopPage(pages[1])
    /\ Requests = 2

====
